---- MODULE Spec2Model ----
(***************************************************************************)
(* Model of analysis_engine/plot_trading_history.py: one call of           *)
(* plot_trading_history, from the construction of the NOT_RUN envelope to  *)
(* either the return of the SUCCESS envelope or an exception leaving the   *)
(* function.  The pandas / matplotlib calls are modelled by what they do   *)
(* to the frame, the axes and the lines: label selection (with KeyError    *)
(* and repeated labels), boolean indexing by index label, dropna, twinx,   *)
(* the lines a DataFrame.plot call adds, and plt.show.                     *)
(***************************************************************************)
EXTENDS Integers, Sequences, FiniteSets, TLC

\* ------------------------------------------------------------------ bounds
\* largest number of rows of an input dataset
MaxRows == 2
\* dates are the days 1..MaxDate
MaxDate == 2

\* ------------------------------------------------------- python / pandas
\* Python's None for handles (axis and figure handles are 1, 2, ...)
None == 0
\* a missing cell (NaN)
NaN == 0
\* an empty slot: None and '' are both falsy in "if red:"
NoColumn == ""

COMMON_TICK_DATE_FORMAT == "%Y-%m-%d %H:%M:%S"

\* the columns of the input dataset
DfColumns == <<"date", "close", "cash">>

Range(s) == {s[i] : i \in 1..Len(s)}

RECURSIVE Concat(_)
Concat(ss) == IF ss = <<>> THEN <<>> ELSE Head(ss) \o Concat(Tail(ss))

RECURSIVE Filter(_, _)
\* the subsequence of s at the positions whose keep flag is TRUE
Filter(s, keep) ==
    IF s = <<>> THEN <<>>
    ELSE (IF Head(keep) THEN <<Head(s)>> ELSE <<>>) \o Filter(Tail(s), Tail(keep))

\* the columns of a frame that carry the label name, in frame order
Matching(columns, name) ==
    Filter(columns, [i \in 1..Len(columns) |-> columns[i] = name])

\* frame[names] raises KeyError when a label of names is not a column
HasColumns(frame, names) == Range(names) \subseteq Range(frame.columns)

\* frame[names]: for every label every column carrying it, rows unchanged
Project(frame, names) ==
    [columns |-> Concat([i \in 1..Len(names) |-> Matching(frame.columns, names[i])]),
     rows    |-> [i \in 1..Len(frame.rows) |->
                    [idx   |-> frame.rows[i].idx,
                     cells |-> [c \in Range(names) |-> frame.rows[i].cells[c]]]]]

\* frame[mask]: the rows whose mask value is TRUE, in frame order
SelectRows(frame, keep) ==
    [columns |-> frame.columns, rows |-> Filter(frame.rows, keep)]

\* datetime.datetime.strptime(start_date, COMMON_TICK_DATE_FORMAT)
Parses(s) == s.fmt = COMMON_TICK_DATE_FORMAT
strptime(s) == s.day

\* a cutoff that loses the rows of the start date itself
FromStartDateStrict(date, start_date_value) == date > start_date_value

\* df[date_col] >= start_date_value
FromStartDate(date, start_date_value) == date >= start_date_value

StartDateMask(frame, col, start_date_value) ==
    [i \in 1..Len(frame.rows) |->
        FromStartDate(frame.rows[i].cells[col], start_date_value)]

\* hasattr(df_filter, 'to_json'): pandas objects have it, None and
\* numpy arrays / lists do not
HasToJson(f) == f.kind = "Series"

\* use_df[df_filter] with a boolean Series: the Series is aligned to the
\* frame by index label
SeriesMask(frame, f) ==
    [i \in 1..Len(frame.rows) |-> f.mask[frame.rows[i].idx]]

\* a row that dropna(axis=0, how='any') keeps: no missing cell
Complete(row) == \A c \in DOMAIN row.cells : row.cells[c] # NaN

DropNa(frame) ==
    SelectRows(frame, [i \in 1..Len(frame.rows) |-> Complete(frame.rows[i])])

\* 'ax{}'.format(idx + 1)
AxKey(i) == <<"ax1", "ax2", "ax3", "ax4">>[i]

RECURSIVE Dedupe(_, _)
\* the labels of s not yet in seen, each once, first occurrence kept
Dedupe(s, seen) ==
    IF s = <<>> THEN seen
    ELSE Dedupe(Tail(s), IF Head(s) \in Range(seen) THEN seen ELSE Append(seen, Head(s)))

VARIABLES
    red, blue, green, orange, date_col, df, start_date, df_filter,
    dropna_for_all, show_plot,
    pc, column_list, all_plots, use_df, fig, fig_open, all_axes, use_ax,
    idx, lines, newLabels, legend_labels, rec, shows, result, returned, exc

args == <<red, blue, green, orange, date_col, df, start_date, df_filter,
          dropna_for_all, show_plot>>
locals == <<column_list, all_plots, use_df, fig, fig_open, all_axes, use_ax,
            idx, lines, newLabels, legend_labels, rec, shows, result,
            returned, exc>>
vars == <<args, pc, locals>>


\* ------------------------------------------------------------ the inputs
SlotNames == {NoColumn, "date", "close", "cash", "nope"}
DateCols == {"date", "day"}

\* a row of the dataset: a date and two numeric cells that may be missing
Cells ==
    {c \in [Range(DfColumns) -> 0..MaxDate] :
        c["date"] >= 1 /\ c["close"] \in {NaN, 1} /\ c["cash"] \in {NaN, 1}}

\* the datasets of n rows; the index labels are 1..n
FramesOf(n) ==
    {[columns |-> DfColumns,
      rows    |-> [i \in 1..n |-> [idx |-> i, cells |-> cs[i]]]] :
        cs \in [1..n -> Cells]}

Frames == UNION {FramesOf(n) : n \in 0..MaxRows}

\* a dataset of two daily rows, the first with no cash value
SampleFrame ==
    [columns |-> DfColumns,
     rows    |-> <<[idx |-> 1, cells |-> [c \in Range(DfColumns) |->
                                            IF c = "cash" THEN NaN ELSE 1]],
                   [idx |-> 2, cells |-> [c \in Range(DfColumns) |->
                                            IF c = "date" THEN MaxDate ELSE 1]]>>]

\* start_date: None, or a day written in some format
NoStart == [fmt |-> "", day |-> 0]
DateOnly == [fmt |-> "%Y-%m-%d", day |-> 1]
StartDates(days) ==
    {NoStart} \cup {[fmt |-> COMMON_TICK_DATE_FORMAT, day |-> d] : d \in days}

\* df_filter: None, a boolean Series over the index of df, or a boolean
\* numpy array of the length of df
NoFilter == [kind |-> "None", mask |-> <<>>]
FiltersOf(n) ==
    {NoFilter} \cup [kind : {"Series"}, mask : [1..n -> BOOLEAN]]

\* lines 115-125: the payload and the NOT_RUN envelope
InitLocals ==
    /\ pc = "start"
    /\ column_list = <<>>
    /\ all_plots = <<>>
    /\ use_df = [columns |-> <<>>, rows |-> <<>>]
    /\ fig = None
    /\ fig_open = FALSE
    /\ all_axes = <<>>
    /\ use_ax = None
    /\ idx = 0
    /\ lines = [h \in 1..4 |-> <<>>]
    /\ newLabels = <<>>
    /\ legend_labels = <<>>
    /\ rec = [k \in {"ax1", "ax2", "ax3", "ax4", "fig"} |-> None]
    /\ shows = 0
    /\ result = [status |-> "NOT_RUN", err |-> "None",
                 rec |-> [k \in {"ax1", "ax2", "ax3", "ax4", "fig"} |-> None]]
    /\ returned = FALSE
    /\ exc = "None"

\* every combination of the four slots over one dataset
InitSeries ==
    /\ red \in SlotNames /\ blue \in SlotNames
    /\ green \in SlotNames /\ orange \in SlotNames
    /\ date_col \in DateCols
    /\ df = SampleFrame
    /\ start_date \in StartDates({MaxDate}) \cup {DateOnly}
    /\ df_filter \in {NoFilter,
                      [kind |-> "Series", mask |-> <<TRUE, TRUE>>],
                      [kind |-> "ndarray", mask |-> <<FALSE, TRUE>>]}
    /\ dropna_for_all \in BOOLEAN
    /\ show_plot \in BOOLEAN

\* every dataset, start date and Series mask for one or two series
InitRows ==
    /\ red = "close" /\ blue \in {NoColumn, "cash"}
    /\ green = NoColumn /\ orange = NoColumn
    /\ date_col = "date"
    /\ df \in Frames
    /\ start_date \in StartDates(1..MaxDate)
    /\ df_filter \in FiltersOf(Len(df.rows))
    /\ dropna_for_all \in BOOLEAN
    /\ show_plot = TRUE

Init == InitLocals /\ (InitSeries \/ InitRows)

\* ------------------------------------------------------------- the call
\* the exceptions of the call: strptime on a string of another format,
\* a label that is not a column, DataFrame.plot with an x label carried by
\* two columns, DataFrame.plot of a frame without rows
StartDateError == "ValueError: time data does not match format"
KeyError == "KeyError: not in index"
XLabelError == "ValueError: x must be a label or position"
EmptyPlotError == "TypeError: no numeric data to plot"

\* an exception leaves the function: no envelope reaches the caller
Raise(e) ==
    /\ pc' = "raised"
    /\ exc' = e

\* lines 155-174: one descriptor per non-empty slot, in slot order
Selected(slots) ==
    Filter(slots, [i \in 1..Len(slots) |-> slots[i].column # NoColumn])

Slots ==
    <<[column |-> red, color |-> "red"], [column |-> blue, color |-> "blue"],
      [column |-> green, color |-> "green"],
      [column |-> orange, color |-> "orange"]>>

\* lines 151-174: the column list
ColumnList(dc, plots) == <<dc>> \o [i \in 1..Len(plots) |-> plots[i].column]

\* lines 130-174
BuildSeries ==
    /\ pc = "start"
    /\ all_plots' = Selected(Slots)
    /\ column_list' = ColumnList(date_col, Selected(Slots))
    /\ pc' = "start_date"
    /\ UNCHANGED <<args, use_df, fig, fig_open, all_axes, use_ax, idx, lines,
                   newLabels, legend_labels, rec, shows, result, returned, exc>>

\* lines 176-181
FilterStartDate ==
    /\ pc = "start_date"
    /\ IF start_date = NoStart
       THEN use_df' = df /\ pc' = "df_filter" /\ exc' = exc
       ELSE IF ~Parses(start_date)
       THEN Raise(StartDateError) /\ use_df' = df
       ELSE IF ~HasColumns(df, <<date_col>>)
       THEN Raise(KeyError) /\ use_df' = df
       ELSE IF ~HasColumns(df, column_list)
       THEN Raise(KeyError) /\ use_df' = df
       ELSE /\ use_df' = Project(SelectRows(df,
                            StartDateMask(df, date_col, strptime(start_date))),
                            column_list)
            /\ pc' = "df_filter" /\ exc' = exc
    /\ UNCHANGED <<args, column_list, all_plots, fig, fig_open, all_axes,
                   use_ax, idx, lines, newLabels, legend_labels, rec, shows,
                   result, returned>>

\* lines 191-192
FilterPredicate ==
    /\ pc = "df_filter"
    /\ IF ~HasToJson(df_filter)
       THEN use_df' = use_df /\ pc' = "dropna" /\ exc' = exc
       ELSE IF ~HasColumns(use_df, column_list)
       THEN Raise(KeyError) /\ use_df' = use_df
       ELSE /\ use_df' = Project(SelectRows(use_df, SeriesMask(use_df, df_filter)),
                                 column_list)
            /\ pc' = "dropna" /\ exc' = exc
    /\ UNCHANGED <<args, column_list, all_plots, fig, fig_open, all_axes,
                   use_ax, idx, lines, newLabels, legend_labels, rec, shows,
                   result, returned>>

\* lines 201-202
DropIncomplete ==
    /\ pc = "dropna"
    /\ use_df' = IF dropna_for_all THEN DropNa(use_df) ELSE use_df
    /\ pc' = "subplots"
    /\ UNCHANGED <<args, column_list, all_plots, fig, fig_open, all_axes,
                   use_ax, idx, lines, newLabels, legend_labels, rec, shows,
                   result, returned, exc>>

\* lines 207-217: plt.subplots opens the figure with its primary axis 1
Subplots ==
    /\ pc = "subplots"
    /\ fig' = 1
    /\ fig_open' = TRUE
    /\ all_axes' = <<>>
    /\ idx' = 0
    /\ pc' = "plot"
    /\ UNCHANGED <<args, column_list, all_plots, use_df, use_ax, lines,
                   newLabels, legend_labels, rec, shows, result, returned, exc>>

\* lines 223-225: the primary axis, or a new twin of it
AxisFor(i) == IF i > 0 THEN i + 1 ELSE 1

\* the labels of the lines DataFrame.plot(x=date_col) draws: one per column
\* of the selection other than the x column
PlottedLabels(columns, x) ==
    Filter(columns, [i \in 1..Len(columns) |-> columns[i] # x])

\* lines 219-268: one pass of the loop over all_plots
PlotSeries ==
    /\ pc = "plot"
    /\ idx < Len(all_plots)
    /\ LET column_name == all_plots[idx + 1].column
           sel == <<date_col, column_name>>
       IN  /\ use_ax' = AxisFor(idx)
           /\ all_axes' = Append(all_axes, AxisFor(idx))
           /\ IF ~HasColumns(use_df, sel)
              THEN Raise(KeyError) /\ UNCHANGED <<lines, idx>>
              ELSE IF Len(Matching(Project(use_df, sel).columns, date_col)) > 1
              THEN Raise(XLabelError) /\ UNCHANGED <<lines, idx>>
              ELSE IF use_df.rows = <<>>
              THEN Raise(EmptyPlotError) /\ UNCHANGED <<lines, idx>>
              ELSE /\ lines' = [lines EXCEPT ![AxisFor(idx)] =
                        @ \o PlottedLabels(Project(use_df, sel).columns, date_col)]
                   /\ idx' = idx + 1
                   /\ pc' = pc /\ exc' = exc
    /\ UNCHANGED <<args, column_list, all_plots, use_df, fig, fig_open,
                   newLabels, legend_labels, rec, shows, result, returned>>

\* plt.gca(): the axis created last
Gca(axes) == IF axes = <<>> THEN 1 ELSE axes[Len(axes)]

\* a loop that stops one axis short
RecordAxesShort(payload, axes, last_ax) ==
    [k \in DOMAIN payload |->
        IF \E i \in 1..(Len(axes) - 1) : k = AxKey(i) THEN last_ax ELSE payload[k]]

\* lines 278-281: the payload entries written by the loop over all_axes
RecordAxes(payload, axes, last_ax) ==
    [k \in DOMAIN payload |->
        IF \E i \in 1..Len(axes) : k = AxKey(i) THEN last_ax ELSE payload[k]]

\* lines 286-288: the labels handed to ax.legend
LegendLabels(axes, ls) == Concat([i \in 1..Len(axes) |-> ls[axes[i]]])

\* lines 271-304
ComposeLegend ==
    /\ pc = "plot"
    /\ idx = Len(all_plots)
    /\ newLabels' = Dedupe(lines[Gca(all_axes)], <<>>)
    /\ rec' = RecordAxes(rec, all_axes, use_ax)
    /\ legend_labels' = LegendLabels(all_axes, lines)
    /\ pc' = "show"
    /\ UNCHANGED <<args, column_list, all_plots, use_df, fig, fig_open,
                   all_axes, use_ax, idx, lines, shows, result, returned, exc>>

\* lines 307-311: the number of plt.show() calls
ShowCalls(flag) == 1 + (IF flag THEN 1 ELSE 0)

\* lines 305-311
Show ==
    /\ pc = "show"
    /\ shows' = shows + ShowCalls(show_plot)
    /\ pc' = "finish"
    /\ UNCHANGED <<args, column_list, all_plots, use_df, fig, fig_open,
                   all_axes, use_ax, idx, lines, newLabels, legend_labels, rec,
                   result, returned, exc>>

\* lines 313-320
Return ==
    /\ pc = "finish"
    /\ rec' = [rec EXCEPT !["fig"] = fig]
    /\ result' = [status |-> "SUCCESS", err |-> "None",
                  rec |-> [rec EXCEPT !["fig"] = fig]]
    /\ returned' = TRUE
    /\ pc' = "returned"
    /\ UNCHANGED <<args, column_list, all_plots, use_df, fig, fig_open,
                   all_axes, use_ax, idx, lines, newLabels, legend_labels,
                   shows, exc>>

Next ==
    \/ BuildSeries
    \/ FilterStartDate
    \/ FilterPredicate
    \/ DropIncomplete
    \/ Subplots
    \/ PlotSeries
    \/ ComposeLegend
    \/ Show
    \/ Return

Spec == Init /\ [][Next]_vars


\* ------------------------------------------------------------ the claims
\* the number of slots that carry a column name
NumSelected ==
    Cardinality({i \in 1..4 : Slots[i].column # NoColumn})

\* the row filters have run and the frame is the one that is drawn
FilterDone == pc \in {"subplots", "plot", "show", "finish", "returned"}

\* at least one series has been drawn from the filtered frame
Drawn == pc \in {"plot", "show", "finish", "returned"} /\ idx > 0

NoRepeat(s) == \A i, j \in 1..Len(s) : s[i] = s[j] => i = j

Retained(r) == \E i \in 1..Len(use_df.rows) : use_df.rows[i].idx = r.idx

\* C1: in the payload of a call that returns, with k non-empty slots,
\* exactly ax1..axk are set and ax(k+1)..ax4 are empty.
C1_AxesMatchSeriesCount ==
    returned =>
        \A i \in 1..4 : (result.rec[AxKey(i)] # None) <=> (i <= NumSelected)

C1_Witness == returned /\ NumSelected = 3 /\ result.rec["ax3"] # None

\* C2: on a successful run ax_i holds the axis created for the i-th series
\* (ax1 the primary axis, ax_i the twin of series index i-1), the handles
\* are pairwise distinct, and fig holds the figure.
C2_HandlesInCreationOrder ==
    returned =>
        /\ \A i \in 1..Len(all_axes) : result.rec[AxKey(i)] = all_axes[i]
        /\ \A i, j \in 1..Len(all_axes) :
              result.rec[AxKey(i)] = result.rec[AxKey(j)] => i = j
        /\ result.rec["fig"] = fig

\* C3: the label list handed to the legend of the primary axis contains no
\* label text twice.
C3_LegendLabelsUnique ==
    pc \in {"show", "finish", "returned"} => NoRepeat(legend_labels)

\* C4: the column list begins with the date column, contains each selected
\* series column exactly once, and contains no name twice.
C4_ColumnListUnique ==
    pc # "start" =>
        /\ column_list[1] = date_col
        /\ \A i \in 1..4 : Slots[i].column # NoColumn =>
              Cardinality({j \in 1..Len(column_list) :
                              column_list[j] = Slots[i].column}) = 1
        /\ NoRepeat(column_list)

\* C5: with a start_date that parses, every row of the drawn frame has a
\* date >= start_date, every input row with date >= start_date that passes
\* the predicate and drop steps the call applies is retained unchanged, and
\* the retained rows keep their input order.
C5_StartDateCutoff ==
    (FilterDone /\ start_date # NoStart) =>
        /\ \A i \in 1..Len(use_df.rows) :
              /\ use_df.rows[i].cells[date_col] >= strptime(start_date)
              /\ \A c \in Range(column_list) :
                    use_df.rows[i].cells[c] = df.rows[use_df.rows[i].idx].cells[c]
        /\ \A i, j \in 1..Len(use_df.rows) :
              i < j => use_df.rows[i].idx < use_df.rows[j].idx
        /\ \A n \in 1..Len(df.rows) :
              ( /\ df.rows[n].cells[date_col] >= strptime(start_date)
                /\ HasToJson(df_filter) => df_filter.mask[n]
                /\ dropna_for_all =>
                      \A c \in Range(column_list) : df.rows[n].cells[c] # NaN )
              => Retained(df.rows[n])

C5_Witness ==
    /\ returned
    /\ start_date # NoStart
    /\ df_filter.kind = "Series"
    /\ dropna_for_all
    /\ Len(use_df.rows) >= 1
    /\ Len(use_df.rows) < Len(df.rows)
    /\ \E i \in 1..Len(use_df.rows) :
          use_df.rows[i].cells[date_col] = strptime(start_date)

\* C6: a malformed start_date or an absent series or date column ends the
\* call with a returned envelope of status FAILED, the error in its error
\* field and no figure or axis handle set.
C6_FatalReturnsFailed ==
    exc \in {StartDateError, KeyError} =>
        /\ returned
        /\ result.status = "FAILED"
        /\ result.err # "None"
        /\ \A k \in DOMAIN result.rec : result.rec[k] = None

\* C7: a successful call displays the figure exactly once when show_plot is
\* true and never when show_plot is false.
C7_ShowGatedByFlag ==
    returned => shows = (IF show_plot THEN 1 ELSE 0)

\* C8: with dropna_for_all set, a row that passed the start date and
\* predicate steps is missing from the drawn frame exactly when it has a
\* missing value in a column of the column list.
C8_DropOnlySelectedMissing ==
    (Drawn /\ dropna_for_all) =>
        \A n \in 1..Len(df.rows) :
            ( /\ start_date # NoStart =>
                    df.rows[n].cells[date_col] >= strptime(start_date)
              /\ HasToJson(df_filter) => df_filter.mask[n] )
            => ( Retained(df.rows[n]) <=>
                   \A c \in Range(column_list) \cap Range(df.columns) :
                       df.rows[n].cells[c] # NaN )

\* C9: whenever a predicate is supplied, in whatever form of boolean row
\* mask, the rows drawn all satisfy it and the drawn frame is projected to
\* the column list.
C9_PredicateNeverIgnored ==
    (Drawn /\ df_filter # NoFilter) =>
        /\ \A i \in 1..Len(use_df.rows) : df_filter.mask[use_df.rows[i].idx]
        /\ Range(use_df.columns) = Range(column_list)

\* C10: when an error ends the call after the figure was created, the
\* figure is released: no call ends with an open figure nobody owns.
C10_NoFigureLeak ==
    pc = "raised" => ~fig_open

====
